---- MODULE Spec2Model ----
(***************************************************************************)
(* A model of descwl/render.py: the rendering Engine (render_galaxy) and   *)
(* the per-galaxy GalaxyRenderer (draw).                                   *)
(*                                                                         *)
(* Units.  Lengths are integers in units of one sixth of a pixel, so that  *)
(* half-pixel centroids and the dx,dy variation of pixel_scale/3 are       *)
(* exact.  Pixel values are integers (electrons).  Images are kept as the  *)
(* code keeps them: a pixel buffer in a heap, and an image header that     *)
(* names the buffer, the bounds and the place of its first pixel in the    *)
(* buffer, so that a sub-image shares its parent's buffer and a copy does  *)
(* not.                                                                    *)
(***************************************************************************)
EXTENDS Integers, Sequences, FiniteSets, TLC

VARIABLES
    no_margin,   \* Engine.no_margin
    heap,        \* pixel buffers: "engine" (Engine.stamp), "renderer" (GalaxyRenderer.stamp)
    stamp,       \* Engine.stamp: the header of the reused postage stamp
    image,       \* survey.image: the accumulator, by <<x, y>>
    galaxy,      \* the galaxy object the caller holds on to: its model and galaxy.renderer
    result,      \* what render_galaxy returned for that galaxy: datacube and bounds
    last,        \* the latest render_galaxy call: its galaxy, its outcome, whether it
                 \* called drawImage, and whether the caller holds on to its galaxy
    lastdraw,    \* the latest draw call on galaxy.renderer: arguments, outcome, and
                 \* the parameters of the draw call before it
    ncalls       \* number of render_galaxy calls made

vars == <<no_margin, heap, stamp, image, galaxy, result, last, lastdraw, ncalls>>

\* ------------------------------------------------------------------ bounds

MaxCalls == 2

\* ----------------------------------------------------- survey and arguments

pixel_scale == 6
image_width == 2
image_height == 2
mean_sky_level == 900
min_snr == 10
truncate_radius == 6

\* ---------------------------------------------------------------- helpers

Abs(n) == IF n < 0 THEN 0 - n ELSE n

Max2(a, b) == IF a < b THEN b ELSE a

Min2(a, b) == IF a < b THEN a ELSE b

\* math.ceil(a/b) for b > 0
CeilDiv(a, b) == 0 - ((0 - a) \div b)

\* math.sqrt on the perfect squares used as sky levels
RECURSIVE SqrtFrom(_, _)
SqrtFrom(n, r) == IF (r + 1) * (r + 1) > n THEN r ELSE SqrtFrom(n, r + 1)

Sqrt(n) == SqrtFrom(n, 0)

RECURSIVE SumTo(_, _)
SumTo(f, n) == IF n < 0 THEN 0 ELSE f[n] + SumTo(f, n - 1)

\* numpy.argmax of a boolean vector v[0..n-1]: the first index of a True, 0 if none
RECURSIVE ArgmaxFrom(_, _, _)
ArgmaxFrom(v, n, i) ==
    IF i >= n THEN 0 ELSE IF v[i] THEN i ELSE ArgmaxFrom(v, n, i + 1)

Argmax(v, n) == ArgmaxFrom(v, n, 0)

\* The single element of a singleton set.
Only(S) == CHOOSE x \in S : TRUE

\* The function f, with the value of every element worked out.
Table(f) == f @@ <<>>

\* F applied to the value of v, with v evaluated once.
Bind(v, F(_)) == Only({F(x) : x \in {v}})

\* v[::-1]
Reversed(v, n) == [i \in 0..(n - 1) |-> v[n - 1 - i]]

\* ---------------------------------------------------------- bounds, images

BoundsI(xmin, xmax, ymin, ymax) == [xmin |-> xmin, xmax |-> xmax, ymin |-> ymin, ymax |-> ymax]

\* galsim.BoundsI.__and__
Intersect(a, b) ==
    BoundsI(Max2(a.xmin, b.xmin), Min2(a.xmax, b.xmax), Max2(a.ymin, b.ymin), Min2(a.ymax, b.ymax))

\* galsim.BoundsI.area: 0 for undefined (empty) bounds
Area(b) ==
    IF b.xmax < b.xmin \/ b.ymax < b.ymin THEN 0
    ELSE (b.xmax - b.xmin + 1) * (b.ymax - b.ymin + 1)

Includes(b, x, y) == b.xmin <= x /\ x <= b.xmax /\ b.ymin <= y /\ y <= b.ymax

Pixels(b) == {p \in (b.xmin..b.xmax) \X (b.ymin..b.ymax) : TRUE}

Width(im) == im.bounds.xmax - im.bounds.xmin + 1

Height(im) == im.bounds.ymax - im.bounds.ymin + 1

\* numpy indices of an array of the given shape
Indices(h, w) == (0..(h - 1)) \X (0..(w - 1))

\* The cell of an image's buffer that holds pixel (x, y).
Cell(im, x, y) == <<im.r0 + (y - im.bounds.ymin), im.c0 + (x - im.bounds.xmin)>>

\* im.array: the view of the buffer, by <<row, column>>
ArrayOf(h, im) ==
    Bind(h[im.buf], LAMBDA cells :
        Table([rc \in Indices(Height(im), Width(im)) |->
                  cells[<<im.r0 + rc[1], im.c0 + rc[2]>>]]))

\* im.array[...] = a: write an array of the image's shape through the view
WriteArray(h, im, a) ==
    Bind(h[im.buf], LAMBDA old :
    Bind(a, LAMBDA new :
        [h EXCEPT ![im.buf] =
            Table([cell \in DOMAIN old |->
                IF /\ cell[1] - im.r0 \in 0..(Height(im) - 1)
                   /\ cell[2] - im.c0 \in 0..(Width(im) - 1)
                THEN new[<<cell[1] - im.r0, cell[2] - im.c0>>]
                ELSE old[cell]])]))

\* galsim.Image.__getitem__(bounds): a view that shares the buffer
SubImage(im, b) ==
    [buf |-> im.buf, bounds |-> b,
     r0 |-> im.r0 + (b.ymin - im.bounds.ymin), c0 |-> im.c0 + (b.xmin - im.bounds.xmin)]

\* galsim.Image.setOrigin
SetOrigin(im, x0, y0) ==
    [im EXCEPT !.bounds = BoundsI(x0, x0 + Width(im) - 1, y0, y0 + Height(im) - 1)]

\* ------------------------------------------------- galaxy models, rendering

\* The transform parameters of draw, except df.  ds, dg1 and dg2 count steps of
\* the variation (0.05, 0.03, 0.03); dx and dy are lengths.
Parameters(dx, dy, ds, dg1, dg2) == [dx |-> dx, dy |-> dy, ds |-> ds, dg1 |-> dg1, dg2 |-> dg2]

ZeroParameters == Parameters(0, 0, 0, 0, 0)

\* A source model: total flux, centroid relative to the image centre, and the
\* dilation and shear applied to the profile.
Model(flux, x, y) == [flux |-> flux, x |-> x, y |-> y, ds |-> 0, dg1 |-> 0, dg2 |-> 0]

\* galsim GSObject.shift
Shift(m, dx, dy) == [m EXCEPT !.x = @ + dx, !.y = @ + dy]

\* Galaxy.get_transformed_model(dx, dy, ds, dg1, dg2)
get_transformed_model(gal, p) ==
    [gal.model EXCEPT !.x = @ + p.dx, !.y = @ + p.dy,
                      !.ds = @ + p.ds, !.dg1 = @ + p.dg1, !.dg2 = @ + p.dg2]

\* survey.get_image_coordinates: the position from the bottom-left corner of the
\* image, here as a length (the pixel coordinate times pixel_scale).
get_image_coordinates(x, y) ==
    <<(image_width * pixel_scale) \div 2 + x, (image_height * pixel_scale) \div 2 + y>>

\* The PSF-convolved profile along one axis: a triangle of the given half width.
Profile(off, half) == Max2(0, half - Abs(off))

HalfWidth == 2 * pixel_scale

\* The sum of Profile over a row of pixels, squared: the flux normalisation.
Norm == (4 * pixel_scale) * (4 * pixel_scale)

Sign(n) == IF n < 0 THEN 0 - 1 ELSE IF n > 0 THEN 1 ELSE 0

\* The value drawImage gives the pixel whose centre is at (px, py) from the
\* true centre of the stamp, for the convolved model m.
PixelValue(m, px, py) ==
    LET oy == py - m.y
        ox == (px - m.x) - m.dg2 * Sign(oy)
    IN  (m.flux * Profile(ox, HalfWidth + m.ds + m.dg1)
                * Profile(oy, HalfWidth + m.ds - m.dg1)) \div Norm

\* galsim.Convolve([m, psf]).drawImage(image = im): overwrites every pixel of im.
DrawImage(h, im, m) ==
    WriteArray(h, im,
        [rc \in Indices(Height(im), Width(im)) |->
            PixelValue(m, (pixel_scale * (2 * rc[2] - (Width(im) - 1))) \div 2,
                          (pixel_scale * (2 * rc[1] - (Height(im) - 1))) \div 2)])

\* A copy that is no copy: the same header on the same buffer.
CopyAliased(h, im, buf) == [heap |-> h, image |-> im]

\* galsim.Image.copy: a new buffer holding the image's pixels

Copy(h, im, buf) ==
    [heap |-> [h EXCEPT ![buf] = ArrayOf(h, im)],
     image |-> [buf |-> buf, bounds |-> im.bounds, r0 |-> 0, c0 |-> 0]]

\* ---------------------------------------------------------- GalaxyRenderer

\* The offset of the stamp centre from the image centre along one axis.
StampOffset(lo, hi, full) == ((lo + hi + 1 - full) * pixel_scale) \div 2

\* GalaxyRenderer.__init__(galaxy, stamp, survey)
GalaxyRenderer(h, gal, st) ==
    Bind(Copy(h, st, "renderer"), LAMBDA c :
    Bind(ArrayOf(c.heap, c.image), LAMBDA a :
        [heap |-> c.heap,
         renderer |->
            [galaxy |-> gal,
             stamp |-> c.image,
             mask |-> Table([rc \in DOMAIN a |-> a[rc] = 0]),
             dx_arcsec |-> StampOffset(c.image.bounds.xmin, c.image.bounds.xmax, image_width),
             dy_arcsec |-> StampOffset(c.image.bounds.ymin, c.image.bounds.ymax, image_height),
             last_parameters |-> ZeroParameters]]))

\* The masking left out.
ZeroMaskedSkipped(h, im, mask) == h

\* self.stamp.array[self.mask] = 0.
ZeroMasked(h, im, mask) ==
    Bind(ArrayOf(h, im), LAMBDA a :
        WriteArray(h, im, [rc \in DOMAIN a |-> IF mask[rc] THEN 0 ELSE a[rc]]))

\* The rescaling done in place, on the cached stamp itself.
ScaledInPlace(h, im, df) ==
    Bind(ArrayOf(h, im), LAMBDA a :
    Bind(Table([rc \in DOMAIN a |-> (1 + df) * a[rc]]), LAMBDA scaled :
        [heap |-> WriteArray(h, im, scaled), array |-> scaled]))

\* (1. + df)*self.stamp: a new image
ScaledCopy(h, im, df) ==
    Bind(ArrayOf(h, im), LAMBDA a :
        [heap |-> h, array |-> Table([rc \in DOMAIN a |-> (1 + df) * a[rc]])])

\* A cache key that looks at the shift only.
CacheMissOnShiftOnly(r, parameters) ==
    parameters.dx # r.last_parameters.dx \/ parameters.dy # r.last_parameters.dy

\* Whether draw has to render again.
CacheMiss(r, parameters) == parameters # r.last_parameters

\* GalaxyRenderer.draw(df, dx, dy, ds, dg1, dg2) on renderer r
draw(h, r, df, parameters) ==
    LET miss == CacheMiss(r, parameters)
        model == get_transformed_model(r.galaxy, parameters)
        r1 == IF miss THEN [r EXCEPT !.last_parameters = parameters] ELSE r
    IN  Bind(IF miss
             THEN ZeroMasked(DrawImage(h, r.stamp, Shift(model, 0 - r.dx_arcsec, 0 - r.dy_arcsec)),
                             r.stamp, r.mask)
             ELSE h, LAMBDA h1 :
        Bind(ScaledCopy(h1, r1.stamp, df), LAMBDA s :
            [heap |-> s.heap, renderer |-> r1, ret |-> s.array,
             rendered |-> IF miss THEN 1 ELSE 0]))

\* ------------------------------------------------------------------ Engine

\* Engine.__init__: self.pixel_cut
pixel_cut == min_snr * Sqrt(mean_sky_level)

\* Engine.__init__: self.psf_dilution is psf_dilution_num / Norm, the value of the
\* PSF drawn into a single pixel.
psf_dilution_num == Profile(0, HalfWidth) * Profile(0, HalfWidth)

\* Engine.__init__: self.padding
padding == CeilDiv(2 * truncate_radius - pixel_scale, 2 * pixel_scale)

size == 2 * padding + 1

\* Engine.__init__: self.truncation_mask
truncation_mask ==
    [rc \in Indices(size, size) |->
        ((rc[2] - padding) * pixel_scale) * ((rc[2] - padding) * pixel_scale)
      + ((rc[1] - padding) * pixel_scale) * ((rc[1] - padding) * pixel_scale)
      <= truncate_radius * truncate_radius]

\* survey.image.bounds
ImageBounds == BoundsI(0, image_width - 1, 0, image_height - 1)

\* The variations of render_galaxy: parameter name and delta.
variations ==
    << <<"dx", pixel_scale \div 3>>, <<"dy", pixel_scale \div 3>>,
       <<"ds", 1>>, <<"dg1", 1>>, <<"dg2", 1>> >>

\* draw(**{pname: value})
Variation(pname, value) == [ZeroParameters EXCEPT ![pname] = value]

\* A pre-filter that forgets the PSF dilution.
TooFaintIgnoringDilution(gal) == gal.model.flux < pixel_cut

\* The flux pre-filter of render_galaxy.
TooFaint(gal) == gal.model.flux * psf_dilution_num < pixel_cut * Norm

\* The bounding box render_galaxy simulates the galaxy in.
BoundingBox(gal) ==
    LET center == get_image_coordinates(gal.model.x, gal.model.y)
        x_center_index == center[1] \div pixel_scale
        y_center_index == center[2] \div pixel_scale
    IN  BoundsI(x_center_index - padding, x_center_index + padding,
                y_center_index - padding, y_center_index + padding)

\* keep_mask = (self.stamp.array*self.truncation_mask > self.pixel_cut)
KeepMask(a) ==
    Table([rc \in DOMAIN a |-> a[rc] * (IF truncation_mask[rc] THEN 1 ELSE 0) > pixel_cut])

\* np.sum(keep_mask)
CountKept(keep) == Cardinality({rc \in DOMAIN keep : keep[rc]})

\* (np.sum(keep_mask, axis=0) > 0) and (np.sum(keep_mask, axis=1) > 0)
x_projection(keep) ==
    [c \in 0..(size - 1) |-> Cardinality({r \in 0..(size - 1) : keep[<<r, c>>]}) > 0]

y_projection(keep) ==
    [r \in 0..(size - 1) |-> Cardinality({c \in 0..(size - 1) : keep[<<r, c>>]}) > 0]

\* The inset taken from the near edge again.
MaxInsetUnreversed(projection) == Argmax(projection, size)

\* The inset of the last kept column (row) from the far edge.
MaxInset(projection) == Argmax(Reversed(projection, size), size)

\* cropped_bounds
CroppedBounds(box, keep) ==
    BoundsI(box.xmin + Argmax(x_projection(keep), size),
            box.xmax - MaxInset(x_projection(keep)),
            box.ymin + Argmax(y_projection(keep), size),
            box.ymax - MaxInset(y_projection(keep)))

\* The check left out.
NoOverlapNever(survey_overlap) == FALSE

\* The check that ends render_galaxy before the survey image is touched.
NoOverlap(survey_overlap) == Area(survey_overlap) = 0

\* An assignment in place of the addition.
AccumulateOverwrite(img, h, cropped_stamp, survey_overlap) ==
    LET part == SubImage(cropped_stamp, survey_overlap)
    IN  Table([p \in DOMAIN img |->
            IF Includes(survey_overlap, p[1], p[2])
            THEN h[part.buf][Cell(part, p[1], p[2])]
            ELSE img[p]])

\* self.survey.image[survey_overlap] += cropped_stamp[survey_overlap]
Accumulate(img, h, cropped_stamp, survey_overlap) ==
    LET part == SubImage(cropped_stamp, survey_overlap)
    IN  Table([p \in DOMAIN img |->
            IF Includes(survey_overlap, p[1], p[2])
            THEN img[p] + h[part.buf][Cell(part, p[1], p[2])]
            ELSE img[p]])

\* a - b, pixel by pixel
Minus(a, b) == Table([rc \in DOMAIN a |-> a[rc] - b[rc]])

\* The loop over the variations, from the i-th on: the two draws of each and the
\* layer of the datacube they give.  A layer holds variation_stamp.array, that is
\* the derivative times 2*delta.
RECURSIVE Partials(_, _, _)
Partials(h, r, i) ==
    IF i > Len(variations)
    THEN [heap |-> h, renderer |-> r, layers |-> <<>>, draws |-> <<>>]
    ELSE LET pname == variations[i][1]
             delta == variations[i][2]
         IN  Bind(draw(h, r, 0, Variation(pname, delta)), LAMBDA plus :
             Bind(draw(plus.heap, plus.renderer, 0, Variation(pname, 0 - delta)), LAMBDA minus :
             Bind(Partials(minus.heap, minus.renderer, i + 1), LAMBDA rest :
                [heap |-> rest.heap, renderer |-> rest.renderer,
                 layers |-> <<Minus(plus.ret, minus.ret)>> \o rest.layers,
                 draws |-> << [df |-> 0, parameters |-> Variation(pname, delta),
                               rendered |-> plus.rendered, ret |-> plus.ret],
                              [df |-> 0, parameters |-> Variation(pname, 0 - delta),
                               rendered |-> minus.rendered, ret |-> minus.ret] >>
                           \o rest.draws])))

NoBounds == BoundsI(0, 0 - 1, 0, 0 - 1)

NoRenderer ==
    [galaxy |-> [model |-> Model(0, 0, 0)],
     stamp |-> [buf |-> "renderer", bounds |-> NoBounds, r0 |-> 0, c0 |-> 0],
     mask |-> <<>>, dx_arcsec |-> 0, dy_arcsec |-> 0, last_parameters |-> ZeroParameters]

\* What a render_galaxy call that raises SourceNotVisible leaves behind.
Raised(checkpoint, h, st, img, ndraw) ==
    [status |-> "SourceNotVisible", checkpoint |-> checkpoint,
     heap |-> h, stamp |-> st, image |-> img,
     renderer |-> NoRenderer, datacube |-> <<>>, bounds |-> NoBounds,
     draws |-> <<>>, ndrawimage |-> ndraw]

\* Engine.render_galaxy(galaxy, no_partials) from heap h, Engine stamp st and
\* survey image img: the outcome and everything the call leaves behind.
render_galaxy(h, st, img, gal, no_partials) ==
    IF TooFaint(gal)
    THEN Raised("prefilter", h, st, img, 0)
    ELSE
    LET box == BoundingBox(gal)
        dx_stamp_arcsec == StampOffset(box.xmin, box.xmax, image_width)
        dy_stamp_arcsec == StampOffset(box.ymin, box.ymax, image_height)
        model == Shift(gal.model, 0 - dx_stamp_arcsec, 0 - dy_stamp_arcsec)
        st1 == SetOrigin(st, box.xmin, box.ymin)
    IN  Bind(DrawImage(h, st1, model), LAMBDA h1 :
        Bind(ArrayOf(h1, st1), LAMBDA a1 :
        Bind(KeepMask(a1), LAMBDA keep_mask :
        IF CountKept(keep_mask) = 0
        THEN Raised("threshold", h1, st1, img, 1)
        ELSE
        Bind(WriteArray(h1, st1, [rc \in DOMAIN a1 |-> IF keep_mask[rc] THEN a1[rc] ELSE 0]),
             LAMBDA h2 :
        LET cropped_bounds == CroppedBounds(box, keep_mask)
            cropped_stamp == SubImage(st1, cropped_bounds)
            survey_overlap == Intersect(cropped_bounds, ImageBounds)
        IN  IF NoOverlap(survey_overlap)
            THEN Raised("overlap", h2, st1, img, 1)
            ELSE
            Bind(GalaxyRenderer(h2, gal, cropped_stamp), LAMBDA made :
            Bind(ArrayOf(made.heap, cropped_stamp), LAMBDA nominal :
            Bind(IF no_partials
                 THEN [heap |-> made.heap, renderer |-> made.renderer,
                       layers |-> <<>>, draws |-> <<>>]
                 ELSE Partials(made.heap, made.renderer, 1), LAMBDA partials :
                [status |-> "ok", checkpoint |-> "",
                 heap |-> partials.heap, stamp |-> st1,
                 image |-> Accumulate(img, h2, cropped_stamp, survey_overlap),
                 renderer |-> partials.renderer,
                 datacube |-> <<nominal>> \o partials.layers,
                 bounds |-> cropped_bounds,
                 draws |-> partials.draws,
                 ndrawimage |-> 1 + SumTo([k \in 0..Len(partials.draws) |->
                                    IF k = 0 THEN 0 ELSE partials.draws[k].rendered],
                                    Len(partials.draws))])))))))

\* ------------------------------------------------------------------ inputs

\* A galaxy whose centroid is at (x, y) from the bottom-left corner of the image.
GalaxyAt(flux, x, y) ==
    [model |-> Model(flux, x - (image_width * pixel_scale) \div 2,
                           y - (image_height * pixel_scale) \div 2)]

\* Total fluxes: too faint for the pre-filter, bright enough for the central
\* pixel only, bright enough for the neighbouring pixels too.
Faint == 2 * Norm

Dim == 3 * Norm

Bright == 6 * Norm

\* Distances: half a pixel, and from the image edge to the centre of the first
\* pixel whose bounding box is outside the image.
Half == pixel_scale \div 2

Far == padding * pixel_scale + Half

\* The galaxies rendered: on a pixel centre, a pixel edge and a pixel corner in
\* the field, just outside the field (off the corner, to the left) and
\* padding + 1 pixels outside it.
Galaxies ==
    { GalaxyAt(Faint, Half, Half),
      GalaxyAt(Bright, Half, Half),
      GalaxyAt(Dim, pixel_scale, pixel_scale + Half),
      GalaxyAt(Dim, pixel_scale, pixel_scale),
      GalaxyAt(Bright, 0 - Half, 0 - Half),
      GalaxyAt(Bright, 0 - Half, Half),
      GalaxyAt(Dim, 0 - Half, Half),
      GalaxyAt(Dim, 0 - Far, Half),
      GalaxyAt(Bright, 0 - Far, Half) }

\* Arguments of draw.
DrawFluxes == {0, 1}

DrawParameters ==
    { ZeroParameters, Variation("dx", pixel_scale \div 3), Variation("dg2", 0 - 1) }

\* ------------------------------------------------------------- state machine

NoGalaxy == [attached |-> FALSE, model |-> Model(0, 0, 0), renderer |-> NoRenderer]

NoResult == [datacube |-> <<>>, bounds |-> NoBounds]

NoCall ==
    [status |-> "none", checkpoint |-> "", galaxy |-> [model |-> Model(0, 0, 0)],
     bounds |-> NoBounds, drawn |-> FALSE, kept |-> FALSE]

NoDraw ==
    [status |-> "none", df |-> 0, parameters |-> ZeroParameters,
     before |-> ZeroParameters, rendered |-> 0, ret |-> <<>>]

Zeros(h, w) == [rc \in Indices(h, w) |-> 0]

Init ==
    /\ no_margin \in BOOLEAN
    /\ heap = [b \in {"engine", "renderer"} |-> IF b = "engine" THEN Zeros(size, size) ELSE <<>>]
    /\ stamp = [buf |-> "engine", bounds |-> BoundsI(1, size, 1, size), r0 |-> 0, c0 |-> 0]
    /\ image = [p \in Pixels(ImageBounds) |-> 0]
    /\ galaxy = NoGalaxy
    /\ result = NoResult
    /\ last = NoCall
    /\ lastdraw = NoDraw
    /\ ncalls = 0

\* The parameters of the draw call before the next one on the held renderer:
\* all zero when there was none.
Before == IF lastdraw.status = "done" THEN lastdraw.parameters ELSE ZeroParameters

\* The draw call that a renderer made by render_galaxy saw last, and the
\* parameters of the one before it.
LastOf(draws) ==
    IF Len(draws) = 0 THEN NoDraw
    ELSE [status |-> "done", df |-> draws[Len(draws)].df,
          parameters |-> draws[Len(draws)].parameters,
          before |-> IF Len(draws) = 1 THEN ZeroParameters
                     ELSE draws[Len(draws) - 1].parameters,
          rendered |-> draws[Len(draws)].rendered, ret |-> draws[Len(draws)].ret]

\* A call of engine.render_galaxy(gal, no_partials).  Afterwards the caller
\* either keeps the galaxy and what was returned for it, in place of the galaxy
\* held before, or drops the galaxy and its renderer.
RenderGalaxy(gal, no_partials) ==
    /\ ncalls < MaxCalls
    /\ \E out \in {render_galaxy(heap, stamp, image, gal, no_partials)} :
           /\ stamp' = out.stamp
           /\ image' = out.image
           /\ \/ /\ out.status = "ok"
                 /\ heap' = out.heap
                 /\ galaxy' = [attached |-> TRUE, model |-> gal.model, renderer |-> out.renderer]
                 /\ result' = [datacube |-> out.datacube, bounds |-> out.bounds]
                 /\ lastdraw' = LastOf(out.draws)
                 /\ last' = [status |-> out.status, checkpoint |-> out.checkpoint,
                             galaxy |-> gal, bounds |-> out.bounds,
                             drawn |-> out.ndrawimage > 0, kept |-> TRUE]
              \/ /\ heap' = [out.heap EXCEPT !["renderer"] = heap["renderer"]]
                 /\ last' = [status |-> out.status, checkpoint |-> out.checkpoint,
                             galaxy |-> gal, bounds |-> out.bounds,
                             drawn |-> out.ndrawimage > 0, kept |-> FALSE]
                 /\ UNCHANGED <<galaxy, result, lastdraw>>
    /\ ncalls' = ncalls + 1
    /\ UNCHANGED no_margin

\* A call of galaxy.renderer.draw(df, dx, dy, ds, dg1, dg2) on the held galaxy.
Draw(df, parameters) ==
    /\ galaxy.attached
    /\ \E d \in {draw(heap, galaxy.renderer, df, parameters)} :
           /\ heap' = d.heap
           /\ galaxy' = [galaxy EXCEPT !.renderer = d.renderer]
           /\ lastdraw' = [status |-> "done", df |-> df, parameters |-> parameters,
                           before |-> Before, rendered |-> d.rendered, ret |-> d.ret]
    /\ UNCHANGED <<no_margin, stamp, image, result, last, ncalls>>

Next ==
    \/ \E gal \in Galaxies, no_partials \in BOOLEAN : RenderGalaxy(gal, no_partials)
    \/ \E df \in DrawFluxes, parameters \in DrawParameters : Draw(df, parameters)

Spec == Init /\ [][Next]_vars

\* ------------------------------------------------------------ observations

\* The value the Engine stamp holds for pixel (x, y) of the survey image frame.
StampValue(x, y) == heap[stamp.buf][Cell(stamp, x, y)]

\* Whether pixel (x, y) of the Engine stamp is above threshold inside the
\* truncation radius.
Kept(x, y) ==
    StampValue(x, y) * (IF truncation_mask[Cell(stamp, x, y)] THEN 1 ELSE 0) > pixel_cut

KeptPixels == {p \in Pixels(stamp.bounds) : Kept(p[1], p[2])}

\* The pixel index of the centre of a galaxy.
CenterIndex(gal) ==
    LET box == BoundingBox(gal) IN <<box.xmin + padding, box.ymin + padding>>

\* The cached stamp of the held galaxy's renderer, in heap h.
Cached(h) == ArrayOf(h, galaxy.renderer.stamp)

IsRenderGalaxy == ncalls' # ncalls

IsDraw == ncalls' = ncalls

\* ------------------------------------------------------------------- claims

\* C1 (as stated): whenever render_galaxy returns normally, some pixel inside
\* both the returned bounds and the survey image is above threshold inside the
\* truncation radius.
C1_OverlapHoldsAboveThresholdPixel ==
    last.status = "ok" =>
        \E p \in Pixels(Intersect(last.bounds, ImageBounds)) : Kept(p[1], p[2])

\* C2: a galaxy with flux*psf_dilution < pixel_cut always gets SourceNotVisible at
\* the pre-filter, before any call of drawImage.
C2_FaintRaisesBeforeRendering ==
    (last.status # "none"
        /\ last.galaxy.model.flux * psf_dilution_num < pixel_cut * Norm)
    => (last.status = "SourceNotVisible" /\ last.checkpoint = "prefilter"
        /\ ~last.drawn)

C2_Witness ==
    /\ last.status = "SourceNotVisible"
    /\ last.checkpoint = "prefilter"
    /\ last.galaxy.model.flux = Faint

\* C3 (as stated): two consecutive draw calls with identical (dx,dy,ds,dg1,dg2)
\* render exactly once across the two calls.
C3_ExactlyOneRenderAcrossTwo ==
    [][(IsDraw /\ lastdraw.status = "done" /\ lastdraw'.parameters = lastdraw.parameters)
        => lastdraw.rendered + lastdraw'.rendered = 1]_vars

\* C3 (amended): a draw call renders if and only if its (dx,dy,ds,dg1,dg2) differs
\* from that of the draw call before it (all zero before the first draw); so the
\* second of two consecutive calls with identical tuples never renders.
C3_RendersIffTupleChanged ==
    lastdraw.status = "done" =>
        /\ lastdraw.rendered \in {0, 1}
        /\ lastdraw.rendered = 1 <=> lastdraw.parameters # lastdraw.before

C3_Witness ==
    /\ lastdraw.status = "done"
    /\ lastdraw.parameters = lastdraw.before
    /\ lastdraw.parameters # ZeroParameters
    /\ lastdraw.rendered = 0
    /\ lastdraw.df = 1

\* C4: draw returns (1+df) times the cached stamp; a draw call with the cached
\* parameters leaves the cached stamp and last_parameters as they were; and
\* draw(df=1) right after draw(df=0) with the same parameters returns twice its
\* image, pixel by pixel.
C4_DrawRescalesCachedStamp ==
    [][IsDraw =>
        /\ lastdraw'.ret = [rc \in DOMAIN Cached(heap') |-> (1 + lastdraw'.df) * Cached(heap')[rc]]
        /\ lastdraw'.parameters = galaxy.renderer.last_parameters
            => /\ Cached(heap') = Cached(heap)
               /\ galaxy'.renderer = galaxy.renderer
               /\ lastdraw'.rendered = 0
        /\ (lastdraw.status = "done" /\ lastdraw'.parameters = lastdraw.parameters
                /\ lastdraw.df = 0 /\ lastdraw'.df = 1)
            => lastdraw'.ret = [rc \in DOMAIN lastdraw.ret |-> 2 * lastdraw.ret[rc]]
      ]_vars

C4_Witness ==
    /\ lastdraw.status = "done"
    /\ lastdraw.df = 1
    /\ lastdraw.rendered = 0
    /\ lastdraw.parameters # ZeroParameters
    /\ \E rc \in DOMAIN lastdraw.ret : lastdraw.ret[rc] > 0

\* C5: the renderer's mask is the grid of zero cells of the stamp it was made
\* from, whatever draw calls were made, and the cached stamp and the image draw
\* returned are zero in every masked cell.
C5_MaskFixedAndMaskedCellsZero ==
    galaxy.attached =>
        /\ galaxy.renderer.mask = [rc \in DOMAIN result.datacube[1] |-> result.datacube[1][rc] = 0]
        /\ \A rc \in DOMAIN galaxy.renderer.mask :
              galaxy.renderer.mask[rc] =>
                  /\ Cached(heap)[rc] = 0
                  /\ lastdraw.status = "done" => lastdraw.ret[rc] = 0

C5_Witness ==
    /\ galaxy.attached
    /\ \E rc \in DOMAIN galaxy.renderer.mask : galaxy.renderer.mask[rc]
    /\ lastdraw.status = "done"
    /\ lastdraw.rendered = 1
    /\ lastdraw.parameters # ZeroParameters
    /\ \E rc \in DOMAIN lastdraw.ret : lastdraw.ret[rc] > 0

\* C6: after a successful render_galaxy the returned bounds are the tight bounding
\* box of the kept pixels: every kept pixel is inside, and each of the four
\* boundary rows and columns holds a kept pixel.
C6_CroppedBoundsTight ==
    last.status = "ok" =>
        /\ \A p \in KeptPixels : Includes(last.bounds, p[1], p[2])
        /\ \E p \in KeptPixels : p[1] = last.bounds.xmin
        /\ \E p \in KeptPixels : p[1] = last.bounds.xmax
        /\ \E p \in KeptPixels : p[2] = last.bounds.ymin
        /\ \E p \in KeptPixels : p[2] = last.bounds.ymax

C6_Witness ==
    /\ last.status = "ok"
    /\ last.bounds.xmin = stamp.bounds.xmin
    /\ last.bounds.xmax < stamp.bounds.xmax
    /\ last.bounds.ymin > stamp.bounds.ymin
    /\ Cardinality(KeptPixels) = 2

\* C7: a galaxy whose bounding box (centre pixel index +/- padding) does not
\* intersect the survey image gets SourceNotVisible.
C7_OutsideFieldNotVisible ==
    (last.status # "none"
        /\ Area(Intersect(BoundingBox(last.galaxy), ImageBounds)) = 0)
    => last.status = "SourceNotVisible"

C7_Witness ==
    /\ last.status = "SourceNotVisible"
    /\ last.checkpoint = "overlap"
    /\ last.galaxy.model.flux = Bright
    /\ CenterIndex(last.galaxy)[1] = 0 - (padding + 1)
    /\ Area(Intersect(BoundingBox(last.galaxy), ImageBounds)) = 0

\* C8 (as stated): with no_margin set, rendering a galaxy whose centre pixel is
\* outside the survey image adds nothing to the survey image.
C8_NoMarginDropsOutsideGalaxies ==
    [][(IsRenderGalaxy /\ no_margin
            /\ ~Includes(ImageBounds, CenterIndex(last'.galaxy)[1], CenterIndex(last'.galaxy)[2]))
        => image' = image]_vars

\* C9: a render_galaxy call that returns adds to each pixel of the survey image
\* inside the returned bounds the thresholded stamp value there, and changes no
\* other pixel; a call that raises SourceNotVisible, and a draw call, leave the
\* survey image as it was.
C9_ImageAccumulatesOverlapOnly ==
    [][/\ (IsRenderGalaxy /\ last'.status = "ok") =>
            \A p \in DOMAIN image :
                image'[p] = image[p]
                    + (IF Includes(last'.bounds, p[1], p[2])
                       THEN heap'[stamp'.buf][Cell(stamp', p[1], p[2])] ELSE 0)
       /\ (IsRenderGalaxy /\ last'.status # "ok") => image' = image
       /\ IsDraw => image' = image
      ]_vars

C9_Witness ==
    /\ ncalls = 2
    /\ last.status = "ok"
    /\ \E p \in DOMAIN image :
          /\ Includes(last.bounds, p[1], p[2])
          /\ StampValue(p[1], p[2]) > 0
          /\ image[p] > StampValue(p[1], p[2])
    /\ \E p \in DOMAIN image : ~Includes(last.bounds, p[1], p[2]) /\ image[p] > 0

\* C10: a render_galaxy call for another galaxy leaves the held galaxy's
\* renderer (cached stamp, mask, stamp bounds and offset, last_parameters) and
\* returned datacube and bounds as they were; a draw call leaves the Engine's
\* stamp, and with it the stamp the renderer was made from, as it was.
C10_HeldResultsNotAliased ==
    [][/\ (IsRenderGalaxy /\ galaxy.attached /\ ~last'.kept) =>
            /\ galaxy' = galaxy
            /\ result' = result
            /\ Cached(heap') = Cached(heap)
       /\ IsDraw => (heap'["engine"] = heap["engine"] /\ stamp' = stamp)
      ]_vars

C10_Witness ==
    /\ galaxy.attached
    /\ ncalls = 2
    /\ last.status = "ok"
    /\ ~last.kept
    /\ stamp.bounds # BoundingBox(galaxy)
    /\ lastdraw.status = "done"
    /\ lastdraw.before # lastdraw.parameters
    /\ lastdraw.df = 1

====
